---- MODULE Spec2Model ----
(***************************************************************************)
(* Model of the elevator dispatcher of cencosud/question_2: Call,          *)
(* ElevatorQueue, Elevator and ElevatorSystem (call.py, elevator.py).      *)
(* Python runs every public method of ElevatorSystem to completion, so     *)
(* each method is one action.                                              *)
(* The second part models HumanResourcesGenerator of cencosud/question_1   *)
(* (random_generator.py): one action per iteration of its sampling loops.  *)
(***************************************************************************)
EXTENDS Integers, Sequences, FiniteSets, TLC

(* ---------------- parameters of the constructed system ---------------- *)
n_elevators == 2
n_floors == 2
wait == 1

(* ---------------- bounds of the model ---------------- *)
MaxCalls == 2        \* Call objects created during a run
MaxTime == 2         \* request timestamps are 0..MaxTime
ExtraFloors == 2     \* SpecNearest reports floors 1..n_floors+ExtraFloors

None == -1           \* Python None (timestamp, elevator_id, absent call)

ElevatorIds == 0 .. (n_elevators - 1)
StateFloors == 1 .. n_floors
WideFloors == 1 .. (n_floors + ExtraFloors)
Timestamps == 0 .. MaxTime
StateMaps == [ElevatorIds -> StateFloors]
WideStateMaps == [ElevatorIds -> WideFloors]

VARIABLES
    elevators,   \* ElevatorSystem.elevators: id -> Elevator
    queue,       \* ElevatorSystem.queue: calls pending assignment
    n_calls,     \* number of Call objects constructed so far (object identity)
    last,        \* the last method run, its arguments and its locals
    personas,    \* HumanResourcesGenerator: the rows of personas sampled
    conyuges,    \* the rows of conyuges accepted so far
    hijos,       \* the rows of hijos accepted so far
    pc           \* the loop of sample() that runs next

es_vars == <<elevators, queue, n_calls, last>>
hr_vars == <<personas, conyuges, hijos, pc>>
vars == <<elevators, queue, n_calls, last, personas, conyuges, hijos, pc>>

Abs(x) == IF x < 0 THEN -x ELSE x

(* ---------------- Call ---------------- *)
\* Call(call_type, floor, sense, elevator_id) with the defaults of the class
Call(id, call_type, floor, sense, elevator_id) ==
    [id |-> id, call_type |-> call_type, floor |-> floor, sense |-> sense,
     not_attended |-> TRUE, timestamp |-> None, elevator_id |-> elevator_id]

\* no call: the method ran without a call
NoCall ==
    [id |-> 0, call_type |-> "", floor |-> 0, sense |-> "",
     not_attended |-> TRUE, timestamp |-> None, elevator_id |-> None]

\* Call.__call__ without the latch
Call__call__relatch(call, timestamp) ==
    [call EXCEPT !.timestamp = timestamp, !.not_attended = FALSE]

\* Call.__call__
Call__call__(call, timestamp) ==
    IF call.not_attended
    THEN [call EXCEPT !.timestamp = timestamp, !.not_attended = FALSE]
    ELSE call

(* ---------------- ElevatorQueue ---------------- *)
ElevatorQueue == [is_empty |-> TRUE, calls |-> <<>>]

\* place of x in the sorted list s: after every element that does not have
\* to follow it, so that equal floors keep their order (list.sort is stable,
\* with reverse=True too)
RECURSIVE InsertCall(_, _, _)
InsertCall(s, x, reverse) ==
    IF s = <<>> THEN <<x>>
    ELSE LET h == Head(s)
             before == IF reverse THEN h.floor >= x.floor
                                  ELSE h.floor <= x.floor
         IN IF before THEN <<h>> \o InsertCall(Tail(s), x, reverse)
                      ELSE <<x>> \o s

RECURSIVE SortFrom(_, _, _)
SortFrom(done, rest, reverse) ==
    IF rest = <<>> THEN done
    ELSE SortFrom(InsertCall(done, Head(rest), reverse), Tail(rest), reverse)

\* ElevatorQueue.sort
ElevatorQueue_sort(q, reverse) ==
    [q EXCEPT !.calls = SortFrom(<<>>, q.calls, reverse)]

\* append that leaves the new call at the tail, without the sort
ElevatorQueue_append_unsorted(q, call) ==
    [q EXCEPT !.calls = Append(q.calls, call), !.is_empty = FALSE]

\* ElevatorQueue.append
ElevatorQueue_append(q, call) ==
    LET reverse == call.sense = "upward"
        pushed == [q EXCEPT !.calls = Append(q.calls, call)]
    IN [ElevatorQueue_sort(pushed, reverse) EXCEPT !.is_empty = FALSE]

\* ElevatorQueue.pop: the queue left; the call returned is the last one
ElevatorQueue_pop(q) ==
    LET rest == SubSeq(q.calls, 1, Len(q.calls) - 1)
    IN [is_empty |-> IF rest = <<>> THEN TRUE ELSE q.is_empty, calls |-> rest]

(* ---------------- Elevator ---------------- *)
\* an elevator built without the wait of the system: the default 10 seconds
Elevator_default_wait(elevator_id) ==
    [elevator_id |-> elevator_id, floor |-> 1, sense |-> "",
     queue |-> ElevatorQueue, wait |-> 10]

Elevator(elevator_id) ==
    [elevator_id |-> elevator_id, floor |-> 1, sense |-> "",
     queue |-> ElevatorQueue, wait |-> wait]

\* the first revision: an in call is taken on an empty queue too
is_available_to_take_in_call_v1(elevator, call) ==
    IF elevator.queue.is_empty
    THEN elevator.elevator_id = call.elevator_id
    ELSE LET last_call == elevator.queue.calls[Len(elevator.queue.calls)]
         IN /\ elevator.elevator_id = call.elevator_id
            /\ last_call.sense = call.sense

\* an in call is taken by any cabin whose last call has its sense
is_available_to_take_in_call_any(elevator, call) ==
    IF elevator.queue.is_empty THEN FALSE
    ELSE LET last_call == elevator.queue.calls[Len(elevator.queue.calls)]
         IN last_call.sense = call.sense

is_available_to_take_in_call(elevator, call) ==
    IF elevator.queue.is_empty THEN FALSE
    ELSE LET last_call == elevator.queue.calls[Len(elevator.queue.calls)]
         IN /\ elevator.elevator_id = call.elevator_id
            /\ last_call.sense = call.sense

\* Python parses  a and b or c  as  (a and b) or c
is_available_to_take_out_call(elevator, call) ==
    IF elevator.queue.is_empty THEN TRUE
    ELSE \/ /\ elevator.sense = call.sense
            /\ (elevator.sense = "upward" /\ elevator.floor <= call.floor)
         \/ (elevator.sense = "downward" /\ elevator.floor >= call.floor)

is_available_to_take_call(elevator, call) ==
    IF call.call_type = "in"
    THEN is_available_to_take_in_call(elevator, call)
    ELSE is_available_to_take_out_call(elevator, call)

\* remove_answered_calls without the else branch
RECURSIVE remove_answered_calls_keep_sense(_)
remove_answered_calls_keep_sense(elevator) ==
    IF ~elevator.queue.is_empty
    THEN LET call_floor == elevator.queue.calls[Len(elevator.queue.calls)].floor
             is_answered ==
                 \/ (elevator.sense = "upward" /\ elevator.floor >= call_floor)
                 \/ (elevator.sense = "downward" /\ elevator.floor <= call_floor)
         IN IF is_answered
            THEN remove_answered_calls_keep_sense(
                     [elevator EXCEPT !.queue = ElevatorQueue_pop(@)])
            ELSE elevator
    ELSE elevator

\* remove_answered_calls that takes every call for answered
RECURSIVE remove_answered_calls_all(_)
remove_answered_calls_all(elevator) ==
    IF ~elevator.queue.is_empty
    THEN remove_answered_calls_all(
             [elevator EXCEPT !.queue = ElevatorQueue_pop(@)])
    ELSE [elevator EXCEPT !.sense = ""]

RECURSIVE remove_answered_calls(_)
remove_answered_calls(elevator) ==
    IF ~elevator.queue.is_empty
    THEN LET call_floor == elevator.queue.calls[Len(elevator.queue.calls)].floor
             is_answered ==
                 \/ (elevator.sense = "upward" /\ elevator.floor >= call_floor)
                 \/ (elevator.sense = "downward" /\ elevator.floor <= call_floor)
         IN IF is_answered
            THEN remove_answered_calls(
                     [elevator EXCEPT !.queue = ElevatorQueue_pop(@)])
            ELSE elevator
    ELSE [elevator EXCEPT !.sense = ""]

\* take_call that travels in the sense of the call
Elevator_take_call_call_sense(elevator, call) ==
    LET cleaned == IF call.call_type = "in"
                   THEN remove_answered_calls(elevator)
                   ELSE elevator
    IN [cleaned EXCEPT !.sense = call.sense,
                       !.queue = ElevatorQueue_append(@, call)]

\* Elevator.take_call
Elevator_take_call(elevator, call) ==
    LET cleaned == IF call.call_type = "in"
                   THEN remove_answered_calls(elevator)
                   ELSE elevator
        sense == IF cleaned.floor <= call.floor THEN "upward" ELSE "downward"
    IN [cleaned EXCEPT !.sense = sense,
                       !.queue = ElevatorQueue_append(@, call)]

\* update_position that returns before the assignment when the queue is empty
update_position_early_return(elevator, position, timestamp) ==
    IF elevator.queue.is_empty THEN elevator
    ELSE LET moved == [elevator EXCEPT !.floor = position]
             n == Len(moved.queue.calls)
             tail == moved.queue.calls[n]
             last_call == IF moved.floor = tail.floor
                          THEN Call__call__(tail, timestamp)
                          ELSE tail
             seen == [moved EXCEPT !.queue.calls[n] = last_call]
         IN IF /\ ~last_call.not_attended
               /\ \/ last_call.call_type = "in"
                  \/ seen.wait < timestamp - last_call.timestamp
            THEN remove_answered_calls(seen)
            ELSE seen

\* update_position that holds an in call for wait like an out call
update_position_in_waits(elevator, position, timestamp) ==
    LET moved == [elevator EXCEPT !.floor = position]
    IN IF ~moved.queue.is_empty
       THEN LET n == Len(moved.queue.calls)
                tail == moved.queue.calls[n]
                last_call == IF moved.floor = tail.floor
                             THEN Call__call__(tail, timestamp)
                             ELSE tail
                seen == [moved EXCEPT !.queue.calls[n] = last_call]
            IN IF /\ ~last_call.not_attended
                  /\ seen.wait < timestamp - last_call.timestamp
               THEN remove_answered_calls(seen)
               ELSE seen
       ELSE moved

\* update_position that removes an out call as soon as wait has elapsed
update_position_at_wait(elevator, position, timestamp) ==
    LET moved == [elevator EXCEPT !.floor = position]
    IN IF ~moved.queue.is_empty
       THEN LET n == Len(moved.queue.calls)
                tail == moved.queue.calls[n]
                last_call == IF moved.floor = tail.floor
                             THEN Call__call__(tail, timestamp)
                             ELSE tail
                seen == [moved EXCEPT !.queue.calls[n] = last_call]
            IN IF /\ ~last_call.not_attended
                  /\ \/ last_call.call_type = "in"
                     \/ seen.wait <= timestamp - last_call.timestamp
               THEN remove_answered_calls(seen)
               ELSE seen
       ELSE moved

\* Elevator.update_position
update_position(elevator, position, timestamp) ==
    LET moved == [elevator EXCEPT !.floor = position]
    IN IF ~moved.queue.is_empty
       THEN LET n == Len(moved.queue.calls)
                tail == moved.queue.calls[n]
                last_call == IF moved.floor = tail.floor
                             THEN Call__call__(tail, timestamp)
                             ELSE tail
                seen == [moved EXCEPT !.queue.calls[n] = last_call]
            IN IF /\ ~last_call.not_attended
                  /\ \/ last_call.call_type = "in"
                     \/ seen.wait < timestamp - last_call.timestamp
               THEN remove_answered_calls(seen)
               ELSE seen
       ELSE moved

(* ---------------- ElevatorSystem ---------------- *)
\* ids of the elevators available to take call, in index order
RECURSIVE AvailableFrom(_, _, _)
AvailableFrom(els, call, i) ==
    IF i >= n_elevators THEN <<>>
    ELSE (IF is_available_to_take_call(els[i], call) THEN <<i>> ELSE <<>>)
         \o AvailableFrom(els, call, i + 1)

get_elevators_available(els, call) == AvailableFrom(els, call, 0)

RECURSIVE NearestFrom(_, _, _, _, _, _)
NearestFrom(els, cands, call, i, nearest_elevator, minimum_distance) ==
    IF i > Len(cands) THEN nearest_elevator
    ELSE LET distance == Abs(els[cands[i]].floor - call.floor)
         IN IF distance < minimum_distance
            THEN NearestFrom(els, cands, call, i + 1, cands[i], distance)
            ELSE NearestFrom(els, cands, call, i + 1,
                             nearest_elevator, minimum_distance)

\* ElevatorSystem.get_nearest_elevator: cands is a non-empty list of ids
get_nearest_elevator(els, cands, call) ==
    NearestFrom(els, cands, call, 1, cands[1], n_floors)

\* take_call that assigns the first available elevator
ElevatorSystem_take_call_first(sys, call) ==
    LET available == get_elevators_available(sys.elevators, call)
    IN IF available # <<>>
       THEN [elevators |-> [sys.elevators EXCEPT ![available[1]] =
                               Elevator_take_call(@, call)],
             queue |-> sys.queue,
             available |-> available,
             nearest |-> available[1]]
       ELSE [elevators |-> sys.elevators,
             queue |-> ElevatorQueue_append(sys.queue, call),
             available |-> available,
             nearest |-> None]

\* ElevatorSystem.take_call on the pair [elevators, queue]; available and
\* nearest are the method's locals
ElevatorSystem_take_call(sys, call) ==
    LET available == get_elevators_available(sys.elevators, call)
    IN IF available # <<>>
       THEN LET nearest_elevator ==
                    get_nearest_elevator(sys.elevators, available, call)
            IN [elevators |-> [sys.elevators EXCEPT ![nearest_elevator] =
                                  Elevator_take_call(@, call)],
                queue |-> sys.queue,
                available |-> available,
                nearest |-> nearest_elevator]
       ELSE [elevators |-> sys.elevators,
             queue |-> ElevatorQueue_append(sys.queue, call),
             available |-> available,
             nearest |-> None]

\* update_state that reads the last pending call without removing it
ElevatorSystem_update_state_peek(sys, state, timestamp) ==
    LET moved == [i \in ElevatorIds |->
                     update_position(sys.elevators[i], state[i], timestamp)]
    IN IF ~sys.queue.is_empty
       THEN LET call == sys.queue.calls[Len(sys.queue.calls)]
                taken == ElevatorSystem_take_call(
                             [elevators |-> moved, queue |-> sys.queue], call)
            IN taken @@ [call |-> call]
       ELSE [elevators |-> moved, queue |-> sys.queue,
             available |-> <<>>, nearest |-> None, call |-> NoCall]

\* update_state that loses the pending call no elevator takes
ElevatorSystem_update_state_drop(sys, state, timestamp) ==
    LET moved == [i \in ElevatorIds |->
                     update_position(sys.elevators[i], state[i], timestamp)]
    IN IF ~sys.queue.is_empty
       THEN LET call == sys.queue.calls[Len(sys.queue.calls)]
                rest == ElevatorQueue_pop(sys.queue)
                taken == IF get_elevators_available(moved, call) = <<>>
                         THEN [elevators |-> moved, queue |-> rest,
                               available |-> <<>>, nearest |-> None]
                         ELSE ElevatorSystem_take_call(
                                  [elevators |-> moved, queue |-> rest], call)
            IN taken @@ [call |-> call]
       ELSE [elevators |-> moved, queue |-> sys.queue,
             available |-> <<>>, nearest |-> None, call |-> NoCall]

\* ElevatorSystem.update_state for a state map that covers every id
ElevatorSystem_update_state(sys, state, timestamp) ==
    LET moved == [i \in ElevatorIds |->
                     update_position(sys.elevators[i], state[i], timestamp)]
    IN IF ~sys.queue.is_empty
       THEN LET call == sys.queue.calls[Len(sys.queue.calls)]
                taken == ElevatorSystem_take_call(
                             [elevators |-> moved,
                              queue |-> ElevatorQueue_pop(sys.queue)], call)
            IN taken @@ [call |-> call]
       ELSE [elevators |-> moved, queue |-> sys.queue,
             available |-> <<>>, nearest |-> None, call |-> NoCall]

\* ElevatorSystem.update_state for a state map without the id missing: the
\* loop has updated the elevators before it when state[missing] raises
\* KeyError, and the pending calls are not reached
ElevatorSystem_update_state_KeyError(sys, state, missing, timestamp) ==
    [elevators |->
         [i \in ElevatorIds |->
             IF i < missing
             THEN update_position(sys.elevators[i], state[i], timestamp)
             ELSE sys.elevators[i]],
     queue |-> sys.queue]

Sys == [elevators |-> elevators, queue |-> queue]

(* ---------------- inputs ---------------- *)
\* the call of a request: out calls name no elevator, in calls name one
CallInputs ==
    [call_type : {"out"}, floor : 1 .. n_floors,
     sense : {"upward", "downward"}, elevator_id : {None}]
    \cup
    [call_type : {"in"}, floor : 1 .. n_floors,
     sense : {"upward", "downward"}, elevator_id : ElevatorIds]

\* a call from a floor the building does not have
CallAbove ==
    [call_type |-> "out", floor |-> n_floors + 1, sense |-> "downward",
     elevator_id |-> None]

\* an in call whose request gives no elevator_id
CallUnbound ==
    [call_type |-> "in", floor |-> 1, sense |-> "upward",
     elevator_id |-> None]

\* a call from floor 0
CallBelow ==
    [call_type |-> "out", floor |-> 0, sense |-> "upward",
     elevator_id |-> None]

\* calls whose call_type or sense is no word of the vocabulary
CallBadType ==
    [call_type |-> "inout", floor |-> 1, sense |-> "upward",
     elevator_id |-> None]
CallBadSense ==
    [call_type |-> "out", floor |-> 1, sense |-> "up",
     elevator_id |-> None]

\* a call whose call_type ends with a newline
CallNewline ==
    [call_type |-> "out\n", floor |-> 1, sense |-> "upward",
     elevator_id |-> None]

\* constr(regex="^in$|^out$"): the field is accepted when re.match finds the
\* pattern, and $ matches at the end and before a newline that ends the string
call_type_regex(v) == v \in {"in", "out", "in\n", "out\n"}

\* constr(regex="^upward$|^downward$")
sense_regex(v) == v \in {"upward", "downward", "upward\n", "downward\n"}

PositiveInt(v) == v > 0

\* Call(**request["call"]) raises ValidationError when a field is refused
Call_validate(c) ==
    /\ call_type_regex(c.call_type)
    /\ PositiveInt(c.floor)
    /\ sense_regex(c.sense)

NewCall(c) == Call(n_calls + 1, c.call_type, c.floor, c.sense, c.elevator_id)

(* ---------------- actions ---------------- *)
\* history: the ids of the calls that are in the queue of an elevator now
\* and are not in the queue of the same elevator in els
RemovedBy(els) ==
    UNION {{elevators[i].queue.calls[k].id :
                k \in 1 .. Len(elevators[i].queue.calls)}
           \ {els[i].queue.calls[k].id :
                k \in 1 .. Len(els[i].queue.calls)} : i \in ElevatorIds}

\* history: state and timestamp repeat the update_state tick just before
\* with a timestamp that is not earlier
Repeats(state, timestamp) ==
    /\ last.op = "update_state"
    /\ last.state = state
    /\ last.timestamp <= timestamp

Init ==
    /\ elevators = [i \in ElevatorIds |-> Elevator(i)]
    /\ queue = ElevatorQueue
    /\ n_calls = 0
    /\ last = [removed |-> {}, repeat |-> FALSE,
               timestamp |-> None, op |-> "init", call |-> NoCall, state |-> <<>>,
               available |-> <<>>, nearest |-> None]
    /\ personas = <<>>
    /\ conyuges = <<>>
    /\ hijos = <<>>
    /\ pc = "personas"

\* es_system.take_call(call)
TakeCall(c) ==
    /\ n_calls < MaxCalls
    /\ LET call == NewCall(c)
           r == ElevatorSystem_take_call(Sys, call)
       IN /\ elevators' = r.elevators
          /\ queue' = r.queue
          /\ n_calls' = n_calls + 1
          /\ last' = [removed |-> RemovedBy(r.elevators), repeat |-> FALSE,
                      timestamp |-> None, op |-> "take_call", call |-> call, state |-> <<>>,
                      available |-> r.available, nearest |-> r.nearest]
          /\ UNCHANGED hr_vars

\* es_system.update_state(state, timestamp); take_request(request) without
\* the key call is this call and nothing else
UpdateState(state, timestamp) ==
    LET r == ElevatorSystem_update_state(Sys, state, timestamp)
    IN /\ elevators' = r.elevators
       /\ queue' = r.queue
       /\ UNCHANGED n_calls
       /\ last' = [removed |-> RemovedBy(r.elevators), repeat |-> Repeats(state, timestamp),
                   op |-> "update_state", call |-> r.call, state |-> state,
                   timestamp |-> timestamp,
                   available |-> r.available, nearest |-> r.nearest]
       /\ UNCHANGED hr_vars

\* es_system.update_state(state, timestamp), or take_request with the same
\* state, for a state map without the id missing: KeyError
UpdateStateRaise(state, missing, timestamp) ==
    LET r == ElevatorSystem_update_state_KeyError(Sys, state, missing, timestamp)
    IN /\ elevators' = r.elevators
       /\ queue' = r.queue
       /\ UNCHANGED n_calls
       /\ last' = [removed |-> RemovedBy(r.elevators), repeat |-> FALSE,
                   timestamp |-> None, op |-> "update_state_raise",
                   call |-> NoCall, state |-> <<>>,
                   available |-> <<>>, nearest |-> None]
       /\ UNCHANGED hr_vars

\* take_request that assigns the call before it updates the state
TakeRequest_call_first(state, timestamp, c) ==
    IF ~Call_validate(c) \/ c.floor > n_floors
    THEN LET u == ElevatorSystem_update_state(Sys, state, timestamp)
         IN /\ elevators' = u.elevators
            /\ queue' = u.queue
            /\ UNCHANGED n_calls
            /\ last' = [removed |-> RemovedBy(u.elevators), repeat |-> FALSE,
                        timestamp |-> None, op |-> "take_request_raise", call |-> NoCall,
                        state |-> state, available |-> <<>>, nearest |-> None]
            /\ UNCHANGED hr_vars
    ELSE /\ n_calls < MaxCalls
         /\ LET call == NewCall(c)
                r == ElevatorSystem_take_call(Sys, call)
                u == ElevatorSystem_update_state(
                         [elevators |-> r.elevators, queue |-> r.queue],
                         state, timestamp)
            IN /\ elevators' = u.elevators
               /\ queue' = u.queue
               /\ n_calls' = n_calls + 1
               /\ last' = [removed |-> RemovedBy(u.elevators), repeat |-> FALSE,
                           timestamp |-> None, op |-> "take_request", call |-> call,
                           state |-> state, available |-> r.available,
                           nearest |-> r.nearest]
               /\ UNCHANGED hr_vars

\* es_system.take_request(request) with the key call
TakeRequest(state, timestamp, c) ==
    LET u == ElevatorSystem_update_state(Sys, state, timestamp)
    IN IF ~Call_validate(c) \/ c.floor > n_floors
       THEN \* ValidationError or ValueError, raised after update_state has run
            /\ elevators' = u.elevators
            /\ queue' = u.queue
            /\ UNCHANGED n_calls
            /\ last' = [removed |-> RemovedBy(u.elevators), repeat |-> FALSE,
                        timestamp |-> None, op |-> "take_request_raise", call |-> NoCall,
                        state |-> state, available |-> <<>>, nearest |-> None]
            /\ UNCHANGED hr_vars
       ELSE /\ n_calls < MaxCalls
            /\ LET call == NewCall(c)
                   r == ElevatorSystem_take_call(
                            [elevators |-> u.elevators, queue |-> u.queue],
                            call)
               IN /\ elevators' = r.elevators
                  /\ queue' = r.queue
                  /\ n_calls' = n_calls + 1
                  /\ last' = [removed |-> RemovedBy(r.elevators), repeat |-> FALSE,
                              timestamp |-> None, op |-> "take_request", call |-> call,
                              state |-> state, available |-> r.available,
                              nearest |-> r.nearest]
                  /\ UNCHANGED hr_vars

Next ==
    \/ \E c \in CallInputs : TakeCall(c)
    \/ \E state \in StateMaps, timestamp \in Timestamps :
           UpdateState(state, timestamp)
    \/ \E missing \in ElevatorIds, timestamp \in Timestamps :
           \E state \in [ElevatorIds \ {missing} -> StateFloors] :
               UpdateStateRaise(state, missing, timestamp)
    \/ \E state \in StateMaps, timestamp \in Timestamps,
          c \in CallInputs \cup {CallAbove, CallUnbound} :
           TakeRequest(state, timestamp, c)

Spec == Init /\ [][Next]_vars

(* ---------------- get_nearest_elevator as a function ---------------- *)
\* the non-empty lists of elevators a caller can pass
CandidateLists ==
    {<<i>> : i \in ElevatorIds}
    \cup {p \in ElevatorIds \X ElevatorIds : p[1] # p[2]}

\* es_system.update_state(state, timestamp) with any floors: neither
\* update_state nor update_position compares a floor with n_floors
UpdateStateWide(state, timestamp) ==
    LET r == ElevatorSystem_update_state(Sys, state, timestamp)
    IN /\ elevators' = r.elevators
       /\ queue' = r.queue
       /\ UNCHANGED n_calls
       /\ last' = [removed |-> RemovedBy(r.elevators), repeat |-> Repeats(state, timestamp),
                   op |-> "update_state", call |-> r.call, state |-> state,
                   timestamp |-> timestamp,
                   available |-> r.available, nearest |-> r.nearest]
       /\ UNCHANGED hr_vars

\* es_system.get_nearest_elevator(cands, call)
GetNearestElevator(cands, c) ==
    LET call == Call(0, c.call_type, c.floor, c.sense, c.elevator_id)
    IN /\ UNCHANGED <<elevators, queue, n_calls>>
       /\ last' = [removed |-> {}, repeat |-> FALSE,
                   timestamp |-> None, op |-> "get_nearest_elevator", call |-> call,
                   state |-> <<>>, available |-> cands,
                   nearest |-> get_nearest_elevator(elevators, cands, call)]
       /\ UNCHANGED hr_vars

NextNearest ==
    \/ \E state \in WideStateMaps : UpdateStateWide(state, 0)
    \/ \E cands \in CandidateLists, c \in CallInputs :
           GetNearestElevator(cands, c)

SpecNearest == Init /\ [][NextNearest]_vars

(* ---------------- an endless sequence of ticks ---------------- *)
\* a caller that gives calls to take_call and never stops sending
\* update_state ticks
Tick == \E state \in StateMaps, timestamp \in Timestamps :
            UpdateState(state, timestamp)

NextTicks ==
    \/ \E c \in CallInputs : TakeCall(c)
    \/ Tick

SpecTicks == Init /\ [][NextTicks]_vars /\ WF_vars(Tick)

(* ---------------- requests with calls of any content ---------------- *)
\* the calls a request can carry: the well-formed ones and the ones whose
\* floor, call_type or sense is outside the vocabulary
RequestCalls ==
    CallInputs \cup {CallAbove, CallUnbound, CallBelow, CallBadType,
                     CallBadSense, CallNewline}

NextRequests ==
    \E state \in StateMaps, timestamp \in Timestamps, c \in RequestCalls :
        TakeRequest(state, timestamp, c)

SpecRequests == Init /\ [][NextRequests]_vars

(* ---------------- HumanResourcesGenerator ---------------- *)
\* arguments of the constructor
n_personas == 3
n_conyuges == 2
n_hijos == 2

\* a datetime at midnight is the number of its day, day 0 = 1 Jan EpochYear;
\* a date string "yyyy-mm-dd" is the triple <<yyyy, mm, dd>>
EpochYear == 1900
LastYear == 2022
Years == EpochYear .. LastYear

IsLeap(y) == (y % 4 = 0 /\ y % 100 # 0) \/ y % 400 = 0
MonthDays(y) ==
    <<31, IF IsLeap(y) THEN 29 ELSE 28, 31, 30, 31, 30, 31, 31, 30, 31, 30, 31>>
LeapsUpTo(y) == (y \div 4) - (y \div 100) + (y \div 400)
DaysBeforeYear(y) ==
    365 * (y - EpochYear) + LeapsUpTo(y - 1) - LeapsUpTo(EpochYear - 1)

RECURSIVE DaysBeforeMonth(_, _)
DaysBeforeMonth(y, m) ==
    IF m = 1 THEN 0 ELSE DaysBeforeMonth(y, m - 1) + MonthDays(y)[m - 1]

RECURSIVE MonthAndDay(_, _, _)
MonthAndDay(y, k, m) ==
    IF k < MonthDays(y)[m] THEN <<m, k + 1>>
    ELSE MonthAndDay(y, k - MonthDays(y)[m], m + 1)

\* datetime(y, m, d)
datetime(y, m, d) == DaysBeforeYear(y) + DaysBeforeMonth(y, m) + d - 1

\* datetime.strptime(s, "%Y-%m-%d")
strptime(s) == datetime(s[1], s[2], s[3])

\* str(t.date())
strdate(t) ==
    LET y == CHOOSE z \in Years :
                 DaysBeforeYear(z) <= t /\ t < DaysBeforeYear(z + 1)
        md == MonthAndDay(y, t - DaysBeforeYear(y), 1)
    IN <<y, md[1], md[2]>>

\* a >= b on two date strings
str_ge(a, b) ==
    \/ a[1] > b[1]
    \/ a[1] = b[1] /\ a[2] > b[2]
    \/ a[1] = b[1] /\ a[2] = b[2] /\ a[3] >= b[3]

\* a > b on two date strings: the order of the characters, which on
\* zero-padded fields is the order of year, month, day
str_gt(a, b) ==
    \/ a[1] > b[1]
    \/ a[1] = b[1] /\ a[2] > b[2]
    \/ a[1] = b[1] /\ a[2] = b[2] /\ a[3] > b[3]

\* Python None where a date string is expected
NoDate == <<>>

min_date == datetime(1900, 1, 1)
max_date == datetime(2022, 1, 1)

\* timedelta(18*365), in days
Adult == 18 * 365

\* the draws the model follows: np.random.choice over the days of an
\* interval gives its first day, its last day or the days of DrawnDays in
\* it; int(np.random.normal(80, 10)*365) gives one of DrawnLifetimes
DrawnDays == {datetime(1950, 1, 1), datetime(2004, 1, 2)}
DrawnLifetimes == {60 * 365, 100 * 365}

\* _sample_date: the dates it can return
sample_date(lo, hi) ==
    {strdate(t) : t \in {u \in DrawnDays \cup {lo, hi} : lo <= u /\ u <= hi}}

\* _sample_death_date with the lifetime drawn
sample_death_date(str_birth_date, limit, lifetime) ==
    LET birth_date == strptime(str_birth_date)
        death_date == birth_date + lifetime
    IN IF limit < death_date THEN NoDate ELSE strdate(death_date)

Max(a, b) == IF a >= b THEN a ELSE b
Min(a, b) == IF a <= b THEN a ELSE b

\* _sample_celebration_date: the dates it can return, {NoDate} when the two
\* have no day on which both are of age and alive
sample_celebration_date(persona_1, persona_2, limit) ==
    LET start_date_1 == strptime(persona_1.nacimiento)
        start_date_2 == strptime(persona_2.nacimiento)
        start_date == Max(start_date_1, start_date_2) + Adult
        end_date ==
            IF persona_1.defuncion = NoDate /\ persona_2.defuncion = NoDate
            THEN limit
            ELSE IF persona_1.defuncion # NoDate /\ persona_2.defuncion = NoDate
            THEN strptime(persona_1.defuncion)
            ELSE IF persona_1.defuncion = NoDate /\ persona_2.defuncion # NoDate
            THEN strptime(persona_2.defuncion)
            ELSE Min(strptime(persona_1.defuncion),
                     strptime(persona_2.defuncion))
    IN IF start_date < end_date
       THEN sample_date(start_date, end_date)
       ELSE {NoDate}

\* one iteration of the loop of _sample_personas; nombre, rut and dv are
\* drawn and not read again
SamplePersona(nacimiento, lifetime) ==
    /\ pc = "personas"
    /\ LET i == Len(personas)
           row == [id |-> i, nacimiento |-> nacimiento,
                   defuncion |-> sample_death_date(nacimiento, max_date,
                                                   lifetime)]
       IN /\ i < n_personas
          /\ personas' = Append(personas, row)
          /\ pc' = IF i + 1 < n_personas THEN "personas" ELSE "conyuges"
    /\ UNCHANGED <<conyuges, hijos>>
    /\ UNCHANGED es_vars

\* one iteration of the loop of _sample_conyuges with the two personas
\* np.random.choice draws without replacement; an iteration that finds no
\* celebration date changes nothing
SampleConyuge(k1, k2) ==
    /\ pc = "conyuges"
    /\ k1 # k2
    /\ LET i == Len(conyuges)
           persona_1 == personas[k1]
           persona_2 == personas[k2]
       IN /\ i < n_conyuges
          /\ \E celebracion \in sample_celebration_date(persona_1, persona_2,
                                                        max_date) :
                IF celebracion # NoDate
                THEN /\ conyuges' = Append(conyuges,
                            [id |-> i, id_persona_1 |-> persona_1.id,
                             id_persona_2 |-> persona_2.id,
                             celebracion |-> celebracion])
                     /\ pc' = IF i + 1 < n_conyuges THEN "conyuges"
                                                    ELSE "hijos"
                ELSE UNCHANGED <<conyuges, pc>>
    /\ UNCHANGED <<personas, hijos>>
    /\ UNCHANGED es_vars

\* one iteration of the loop of _sample_hijos with the marriage and the
\* persona drawn
SampleHijo(m, k) ==
    /\ pc = "hijos"
    /\ LET i == Len(hijos)
           marriage == conyuges[m]
           hijo == personas[k]
       IN /\ i < 2 * n_hijos
          /\ IF str_gt(hijo.nacimiento, marriage.celebracion)
             THEN /\ hijos' = hijos \o
                       <<[id |-> i, id_padre |-> marriage.id_persona_1,
                          id_hijo |-> hijo.id],
                         [id |-> i + 1, id_padre |-> marriage.id_persona_2,
                          id_hijo |-> hijo.id]>>
                  /\ pc' = IF i + 2 < 2 * n_hijos THEN "hijos" ELSE "done"
             ELSE UNCHANGED <<hijos, pc>>
    /\ UNCHANGED <<personas, conyuges>>
    /\ UNCHANGED es_vars

NextHR ==
    \/ \E nacimiento \in sample_date(min_date, max_date),
          lifetime \in DrawnLifetimes :
           SamplePersona(nacimiento, lifetime)
    \/ \E k1 \in 1 .. n_personas, k2 \in 1 .. n_personas :
           SampleConyuge(k1, k2)
    \/ \E m \in 1 .. n_conyuges, k \in 1 .. n_personas :
           SampleHijo(m, k)

SpecHR == Init /\ [][NextHR]_vars

(* ---------------- equality of calls and queues ---------------- *)
\* Call.__eq__: the fields but not_attended
Call__eq__(self, other) ==
    /\ self.call_type = other.call_type
    /\ self.floor = other.floor
    /\ self.sense = other.sense
    /\ self.timestamp = other.timestamp
    /\ self.elevator_id = other.elevator_id

\* ElevatorQueue.__eq__: all(sc == oc for sc, oc in zip(...)); zip stops at
\* the end of the shorter list
ElevatorQueue__eq__(self, other) ==
    \A k \in 1 .. Min(Len(self.calls), Len(other.calls)) :
        Call__eq__(self.calls[k], other.calls[k])

(* ---------------- helpers of the properties ---------------- *)
Range(s) == {s[k] : k \in DOMAIN s}
QueueIds(q) == {q.calls[k].id : k \in DOMAIN q.calls}
HeldCalls ==
    Range(queue.calls) \cup UNION {Range(elevators[i].queue.calls) : i \in ElevatorIds}
Distance(i, call) == Abs(elevators[i].floor - call.floor)

Dir(i, call) == IF elevators[i].floor <= call.floor THEN "upward" ELSE "downward"
Holders(id) == {i \in ElevatorIds : id \in QueueIds(elevators[i].queue)}
Occurrences(seq, id) == Cardinality({k \in DOMAIN seq : seq[k].id = id})
OutCalls == {Call(0, c.call_type, c.floor, c.sense, c.elevator_id) :
                c \in {x \in CallInputs : x.call_type = "out"}}
InCalls == {Call(0, c.call_type, c.floor, c.sense, c.elevator_id) :
               c \in {x \in CallInputs : x.call_type = "in"}}

TypeOK ==
    /\ n_calls \in 0 .. MaxCalls
    /\ \A i \in ElevatorIds :
          /\ elevators[i].floor \in StateFloors
          /\ elevators[i].queue.is_empty <=> elevators[i].queue.calls = <<>>
    /\ queue.is_empty <=> queue.calls = <<>>

(* ---------------- properties ---------------- *)

\* C1: a step of ElevatorSystem.take_call(call): when some elevator admits the
\* call, the call is afterwards in the queue of exactly one elevator, the one
\* get_nearest_elevator picks among the admitting ones, and the backlog and
\* every other elevator are unchanged; when none admits it, the call is added
\* to the backlog and no elevator changes.
C1_TakeCallFrame ==
    [][last'.op = "take_call" =>
        LET call == last'.call
            admitting == {i \in ElevatorIds :
                             is_available_to_take_call(elevators[i], call)}
        IN IF admitting # {}
           THEN LET e == get_nearest_elevator(
                             elevators, get_elevators_available(elevators, call),
                             call)
                IN /\ e \in admitting
                   /\ {i \in ElevatorIds :
                          call.id \in QueueIds(elevators'[i].queue)} = {e}
                   /\ Occurrences(elevators'[e].queue.calls, call.id) = 1
                   /\ elevators'[e].floor = elevators[e].floor
                   /\ queue' = queue
                   /\ \A j \in ElevatorIds \ {e} : elevators'[j] = elevators[j]
           ELSE /\ elevators' = elevators
                /\ Len(queue'.calls) = Len(queue.calls) + 1
                /\ Range(queue'.calls) = Range(queue.calls) \cup {call}
                /\ call \notin Range(queue.calls)
    ]_vars

\* C1 witness: take_call chose the second of two admitting elevators
C1_Witness ==
    /\ last.op = "take_call"
    /\ Len(last.available) = 2
    /\ last.nearest = 1
    /\ last.call.id \in QueueIds(elevators[1].queue)

\* C2: get_nearest_elevator returns a candidate whose distance to the call is
\* minimal over the candidates, the first such candidate of the list.
C2_NearestIsMinimal ==
    last.op = "get_nearest_elevator" =>
        LET cands == last.available
            d(i) == Distance(i, last.call)
        IN /\ last.nearest \in Range(cands)
           /\ \A k \in DOMAIN cands : d(last.nearest) <= d(cands[k])
           /\ \A k \in DOMAIN cands :
                 cands[k] = last.nearest =>
                     \A j \in 1 .. (k - 1) : d(cands[j]) > d(last.nearest)

\* C3: in a take_request with a call, the elevators found available and the
\* nearest one are those of the floors, senses and queues left by update_state
\* of the same request: every elevator the call was not given to is in
\* available exactly when it admits the call as it stands after the request,
\* and nearest is the choice over the floors of the request.
C3_AdmissionAfterUpdate ==
    (last.op = "take_request") =>
        LET call == last.call
        IN /\ \A i \in ElevatorIds : elevators[i].floor = last.state[i]
           /\ \A i \in ElevatorIds \ {last.nearest} :
                 (i \in Range(last.available))
                     <=> is_available_to_take_call(elevators[i], call)
           /\ IF last.available # <<>>
              THEN /\ last.nearest =
                          get_nearest_elevator(elevators, last.available, call)
                   /\ Holders(call.id) = {last.nearest}
              ELSE /\ last.nearest = None
                   /\ Holders(call.id) = {}
                   /\ call.id \in QueueIds(queue)

\* C3 witness: a request moved the cabins and its call went to the elevator
\* that became the nearest one
C3_Witness ==
    /\ last.op = "take_request"
    /\ last.nearest = 1
    /\ Len(last.available) = 2
    /\ elevators[0].floor # 1

\* C4: after update_state(state, t), also inside take_request, every
\* elevator's floor is state[elevator_id].
C4_FloorsAreState ==
    (last.op \in {"update_state", "take_request", "take_request_raise"}) =>
        \A i \in ElevatorIds : elevators[i].floor = last.state[i]

\* C4 witness: update_state moved a cabin with a pending call and retried a
\* backlog call
C4_Witness ==
    /\ last.op = "update_state"
    /\ last.call # NoCall
    /\ \E i \in ElevatorIds :
          elevators[i].floor # 1 /\ elevators[i].queue.calls # <<>>

\* C5: is_available_to_take_out_call is true exactly when the queue is empty,
\* or the elevator's sense is the call's sense and the call's floor is ahead.
C5_OutAdmission ==
    \A i \in ElevatorIds, call \in OutCalls :
        LET elevator == elevators[i]
        IN is_available_to_take_out_call(elevator, call) <=>
               \/ elevator.queue.calls = <<>>
               \/ /\ elevator.sense = call.sense
                  /\ \/ (elevator.sense = "upward"
                            /\ elevator.floor <= call.floor)
                     \/ (elevator.sense = "downward"
                            /\ elevator.floor >= call.floor)

\* C6: is_available_to_take_in_call is true exactly when the elevator is the
\* one the call names, its queue is non-empty and the last call of the queue
\* has the sense of the call.
C6_InAdmission ==
    \A i \in ElevatorIds, call \in InCalls :
        LET elevator == elevators[i]
            calls == elevator.queue.calls
        IN is_available_to_take_in_call(elevator, call) <=>
               /\ elevator.elevator_id = call.elevator_id
               /\ calls # <<>>
               /\ calls[Len(calls)].sense = call.sense

\* C6 witness: an in call was refused by every elevator while the queue of the
\* elevator it names was empty, and was admitted by it at a later retry
C6_Witness ==
    /\ last.op = "update_state"
    /\ last.call # NoCall
    /\ last.call.call_type = "in"
    /\ last.nearest # None
    /\ last.nearest = last.call.elevator_id
    /\ Len(elevators[last.nearest].queue.calls) = 2

\* C7 as claimed: every call of a non-empty queue has the sense of its elevator.
C7_CallsShareSense ==
    \A i \in ElevatorIds :
        \A k \in DOMAIN elevators[i].queue.calls :
            elevators[i].queue.calls[k].sense = elevators[i].sense

\* C7 amended: after a call is given to an elevator, the sense of the elevator
\* is the direction from its floor to the floor of that call.
C7_SenseIsDirection ==
    (last.op \in {"take_call", "update_state", "take_request"}
        /\ last.nearest # None) =>
        elevators[last.nearest].sense = Dir(last.nearest, last.call)

\* C7 witness: an elevator took a call whose sense is not its direction
C7_Witness ==
    /\ last.op = "take_request"
    /\ last.nearest # None
    /\ elevators[last.nearest].sense = "downward"
    /\ last.call.sense = "upward"

\* C8: the sense of an elevator is empty exactly when its queue is empty.
C8_IdleIffEmpty ==
    \A i \in ElevatorIds :
        (elevators[i].sense = "") <=> (elevators[i].queue.calls = <<>>)

\* C8 witness: every call taken has been answered and removed, and the
\* elevators are idle again
C8_Witness ==
    /\ n_calls = MaxCalls
    /\ HeldCalls = {}
    /\ \A i \in ElevatorIds : elevators[i].sense = ""

\* C9: a pending call is not attended exactly when its timestamp is unset,
\* and a timestamp once set is kept for as long as the call is pending.
C9_AttendLatch ==
    /\ [](\A call \in HeldCalls :
             call.not_attended <=> (call.timestamp = None))
    /\ [][\A call \in HeldCalls : \A later \in HeldCalls' :
             (later.id = call.id /\ call.timestamp # None) =>
                 (later.timestamp = call.timestamp /\ ~later.not_attended)
       ]_vars

\* C9 witness: an attended call is held at its floor by a later tick
C9_Witness ==
    /\ last.op = "update_state"
    /\ \E call \in HeldCalls : ~call.not_attended /\ call.timestamp = 0
    /\ \E call \in HeldCalls : call.not_attended

\* C10: no call is in two queues, nor twice in one.
C10_OneQueuePerCall ==
    \A id \in 1 .. n_calls :
        /\ Occurrences(queue.calls, id) + Cardinality(Holders(id)) <= 1
        /\ \A i \in ElevatorIds :
              Occurrences(elevators[i].queue.calls, id) <= 1

\* C10 witness: a backlog call was given to an elevator at a retry
C10_Witness ==
    /\ last.op = "update_state"
    /\ last.call # NoCall
    /\ last.nearest # None
    /\ queue.calls = <<>>
    /\ Cardinality(HeldCalls) = 2

\* C11: a take_request whose call has a floor above n_floors raises and leaves
\* every elevator and the backlog as they were before the request.
C11_RaiseLeavesState ==
    [][last'.op = "take_request_raise" =>
          (elevators' = elevators /\ queue' = queue)]_vars

\* C12: update_state (and take_request) with a state map that lacks the id of
\* an elevator fails and leaves every elevator and the backlog unchanged.
C12_KeyErrorLeavesState ==
    [][last'.op = "update_state_raise" =>
          (elevators' = elevators /\ queue' = queue)]_vars

\* C13: an in call without elevator_id is rejected: no queue and no backlog
\* ever holds such a call.
C13_NoUnboundInCall ==
    \A call \in HeldCalls :
        call.call_type = "in" => call.elevator_id # None

\* C14: a tick of update_state retries at most one pending call: the backlog
\* keeps its length or loses exactly one call; it loses one exactly when it
\* was not empty and its last call was taken by an elevator; a last call that
\* no elevator admits is in the backlog again after the tick.
C14_OneRetryPerTick ==
    [][last'.op = "update_state" =>
        LET n == Len(queue.calls)
            m == Len(queue'.calls)
        IN IF n = 0
           THEN m = 0 /\ last'.call = NoCall
           ELSE LET call == queue.calls[n]
                    taken == \E i \in ElevatorIds :
                                 call.id \in QueueIds(elevators'[i].queue)
                IN /\ last'.call = call
                   /\ m \in {n, n - 1}
                   /\ (m = n - 1) <=> taken
                   /\ taken =>
                         QueueIds(queue') = QueueIds(queue) \ {call.id}
                   /\ ~taken =>
                         /\ QueueIds(queue') = QueueIds(queue)
                         /\ \A i \in ElevatorIds :
                               ~is_available_to_take_call(elevators'[i], call)
    ]_vars

\* C14 witness: of two pending calls the tick retried one, no elevator took
\* it and both are pending again
C14_Witness ==
    /\ last.op = "update_state"
    /\ last.call # NoCall
    /\ last.nearest = None
    /\ Len(queue.calls) = 2
    /\ last.call.id \in QueueIds(queue)

\* the calls of the queue of elevator i that the step takes out of it
Removed(i) ==
    {call \in Range(elevators[i].queue.calls) :
        call.id \notin QueueIds(elevators'[i].queue)}

\* the step is a second update_state tick with the state map of the tick
\* before it and a timestamp that is not earlier
SecondTick ==
    /\ last.op = "update_state"
    /\ last'.op = "update_state"
    /\ last'.state = last.state
    /\ last'.timestamp >= last.timestamp

\* C15: the second of two update_state ticks with the same state map and
\* t1 <= t2 leaves every floor unchanged and removes from the elevator
\* queues only out calls attended at a time a with t2 - a > wait.
C15_SecondTickEvictsExpired ==
    [][SecondTick =>
        /\ \A i \in ElevatorIds : elevators'[i].floor = elevators[i].floor
        /\ \A i \in ElevatorIds : \A call \in Removed(i) :
              /\ call.call_type = "out"
              /\ ~call.not_attended
              /\ last'.timestamp - call.timestamp > wait
    ]_vars

\* C15, as the code has it: the second of two update_state ticks with the
\* same state map and t1 <= t2 leaves every floor unchanged; when it removes
\* calls from the queue of an elevator, the call at the tail of that queue is
\* one of them, and either the tick's retry of a pending call gave an in call
\* to that elevator, or the tail is an in call at the floor of the cabin, or
\* the tail is no in call and was attended at a time a with t2 - a > wait; every
\* call removed lies at a floor the cabin has reached or passed in its sense.
C15_SecondTickReclaims ==
    [][SecondTick =>
        /\ \A i \in ElevatorIds : elevators'[i].floor = elevators[i].floor
        /\ \A i \in ElevatorIds :
              Removed(i) # {} =>
                LET tail == elevators[i].queue.calls[
                                Len(elevators[i].queue.calls)]
                IN /\ tail \in Removed(i)
                   /\ \/ /\ last'.call.call_type = "in"
                         /\ last'.nearest = i
                      \/ /\ tail.call_type = "in"
                         /\ tail.floor = elevators'[i].floor
                      \/ /\ tail.call_type # "in"
                         /\ ~tail.not_attended
                         /\ last'.timestamp - tail.timestamp > wait
                   /\ \A call \in Removed(i) :
                         \/ /\ elevators[i].sense = "upward"
                            /\ elevators'[i].floor >= call.floor
                         \/ /\ elevators[i].sense = "downward"
                            /\ elevators'[i].floor <= call.floor
    ]_vars

\* C15 witness: a second tick with the state map of the tick before it has
\* removed two calls from the queues of the elevators
C15_Witness ==
    /\ last.op = "update_state"
    /\ last.repeat
    /\ Cardinality(last.removed) = 2

\* the call has been attended when the step removes it from the queue of
\* elevator i: it was attended before, or it is the tail call and
\* update_position attends it in this step at the floor of the cabin
AttendedAtRemoval(i, call) ==
    \/ ~call.not_attended
    \/ /\ last'.op = "update_state"
       /\ call = elevators[i].queue.calls[Len(elevators[i].queue.calls)]
       /\ call.floor = elevators'[i].floor

\* the cabin of elevator i has reached or passed the floor of the call in
\* the sense it has before the step, at the floor it has after it
ReachedOrPassed(i, call) ==
    \/ /\ elevators[i].sense = "upward"
       /\ elevators'[i].floor >= call.floor
    \/ /\ elevators[i].sense = "downward"
       /\ elevators'[i].floor <= call.floor

\* C16: every call that a step of take_call or update_state removes from the
\* queue of an elevator has not_attended = false at the moment it is removed.
C16_RemovedWereAttended ==
    [][last'.op \in {"take_call", "update_state"} =>
        \A i \in ElevatorIds : \A call \in Removed(i) :
            AttendedAtRemoval(i, call)
    ]_vars

\* C16, as the code has it: every call that a step of take_call or
\* update_state removes from the queue of an elevator lies at a floor the
\* cabin has reached or passed in its sense; the step gave an in call to that
\* elevator, or the tail call is removed and has not_attended = false.
C16_RemovedWereReached ==
    [][last'.op \in {"take_call", "update_state"} =>
        \A i \in ElevatorIds :
            Removed(i) # {} =>
              LET tail == elevators[i].queue.calls[
                              Len(elevators[i].queue.calls)]
              IN /\ \A call \in Removed(i) : ReachedOrPassed(i, call)
                 /\ \/ /\ last'.call.call_type = "in"
                       /\ last'.nearest = i
                    \/ /\ tail \in Removed(i)
                       /\ AttendedAtRemoval(i, tail)
    ]_vars

\* C16 witness: take_call gave an in call to an elevator and the reclaim
\* before it removed a call from the queue of that elevator
C16_Witness ==
    /\ last.op = "take_call"
    /\ last.call.call_type = "in"
    /\ last.nearest # None
    /\ last.removed # {}

\* C17: a freshly constructed ElevatorSystem has exactly n_elevators
\* elevators with ids 0 .. n_elevators - 1 in index order, each at floor 1,
\* idle, with an empty queue and the wait of the system, and an empty
\* backlog; the queues are the elevators' own: the first call the fresh
\* system gives to an elevator is in the queue of that elevator alone.
C17_FreshSystem ==
    /\ last.op = "init" =>
          /\ DOMAIN elevators = 0 .. n_elevators - 1
          /\ \A i \in DOMAIN elevators :
                /\ elevators[i].elevator_id = i
                /\ elevators[i].floor = 1
                /\ elevators[i].sense = ""
                /\ elevators[i].queue.is_empty
                /\ elevators[i].queue.calls = <<>>
                /\ elevators[i].wait = wait
          /\ queue.is_empty
          /\ queue.calls = <<>>
    /\ (last.op = "take_call" /\ n_calls = 1 /\ last.nearest # None) =>
          \A i \in ElevatorIds :
              elevators[i].queue.calls =
                  IF i = last.nearest THEN <<last.call>> ELSE <<>>

\* C17 witness: the system as constructed, two idle elevators at floor 1
C17_Witness ==
    /\ last.op = "init"
    /\ n_calls = 0
    /\ Cardinality(DOMAIN elevators) = n_elevators
    /\ \A i \in ElevatorIds : elevators[i].floor = 1 /\ elevators[i].sense = ""

\* the calls are in the order of the sort with reverse = (sense = "upward")
SortedFor(calls, sense) ==
    \A k \in 1 .. Len(calls) - 1 :
        IF sense = "upward"
        THEN calls[k].floor >= calls[k + 1].floor
        ELSE calls[k].floor <= calls[k + 1].floor

\* the queues, of an elevator or the backlog, that hold the call with this id
QueuesWith(id) ==
    {q \in {queue} \cup {elevators[i].queue : i \in ElevatorIds} :
        id \in QueueIds(q)}

\* C20: after ElevatorQueue.append(call), on the queue of an elevator or on
\* the backlog, the whole sequence is sorted by floor, non-increasing when
\* the sense of the appended call is upward and non-decreasing when it is
\* downward, and the queue holds the calls it held before the append and the
\* new call, once each, and nothing else.
C20_AppendKeepsSorted ==
    /\ [](last.op \in {"take_call", "update_state", "take_request"}
             /\ last.call # NoCall =>
             /\ QueuesWith(last.call.id) # {}
             /\ \A q \in QueuesWith(last.call.id) :
                   /\ SortedFor(q.calls, last.call.sense)
                   /\ ~q.is_empty)
    /\ [][last'.op = "take_call" =>
            LET call == last'.call
                i == last'.nearest
            IN IF i = None
               THEN /\ Range(queue'.calls) = Range(queue.calls) \cup {call}
                    /\ Len(queue'.calls) = Len(queue.calls) + 1
               ELSE /\ Range(elevators'[i].queue.calls) =
                          (Range(elevators[i].queue.calls) \ Removed(i))
                              \cup {call}
                    /\ Len(elevators'[i].queue.calls) =
                          Len(elevators[i].queue.calls)
                              - Cardinality(Removed(i)) + 1
       ]_vars

\* C20 witness: take_call appended a downward call from floor 1 to a queue
\* that held a call from floor 2, and the new call went before it
C20_Witness ==
    /\ last.op = "take_call"
    /\ last.call.sense = "downward"
    /\ \E q \in QueuesWith(last.call.id) :
          /\ Len(q.calls) = 2
          /\ q.calls[1] = last.call
          /\ q.calls[1].floor = 1
          /\ q.calls[2].floor = 2

\* the date string n years after s: the same month and day, 1 March for a
\* 29 February that the later year does not have
AddYears(s, n) ==
    IF s[2] = 2 /\ s[3] = 29 /\ ~IsLeap(s[1] + n)
    THEN <<s[1] + n, 3, 1>>
    ELSE <<s[1] + n, s[2], s[3]>>

\* a <= b on two date strings
str_le(a, b) == ~str_gt(a, b)

\* the later of two date strings
str_max(a, b) == IF str_gt(a, b) THEN a ELSE b

PersonaOf(id) == personas[id + 1]

\* C18: every marriage of _sample_conyuges joins two distinct personas and
\* its celebration date d has max(births) + 18 years <= d <= the deaths that
\* are set and max_date; the ids are 0, 1, .. in order and, once the loop
\* has ended, there are exactly n_conyuges marriages.
C18_MarriageWindow ==
    /\ \A k \in 1 .. Len(conyuges) :
          LET row == conyuges[k]
              persona_1 == PersonaOf(row.id_persona_1)
              persona_2 == PersonaOf(row.id_persona_2)
          IN /\ row.id = k - 1
             /\ row.id_persona_1 # row.id_persona_2
             /\ str_le(AddYears(str_max(persona_1.nacimiento,
                                        persona_2.nacimiento), 18),
                       row.celebracion)
             /\ persona_1.defuncion # NoDate =>
                   str_le(row.celebracion, persona_1.defuncion)
             /\ persona_2.defuncion # NoDate =>
                   str_le(row.celebracion, persona_2.defuncion)
             /\ str_le(row.celebracion, strdate(max_date))
    /\ pc \in {"hijos", "done"} => Len(conyuges) = n_conyuges
    /\ Len(conyuges) <= n_conyuges

C21_TailIsNextStop ==
    \A i \in ElevatorIds :
        LET calls == elevators[i].queue.calls
        IN calls # <<>> =>
              /\ elevators[i].sense = "upward" =>
                    \A k \in DOMAIN calls :
                        calls[Len(calls)].floor <= calls[k].floor
              /\ elevators[i].sense = "downward" =>
                    \A k \in DOMAIN calls :
                        calls[Len(calls)].floor >= calls[k].floor

\* C22: a step of ElevatorSystem.take_call that appends the call to an
\* elevator whose queue is not empty at the moment of the append leaves the
\* sense of that elevator as it was.
C22_SenseKeptWhileBusy ==
    [][(last'.op = "take_call" /\ last'.nearest # None) =>
          LET i == last'.nearest
          IN Len(elevators'[i].queue.calls) >= 2 =>
                elevators'[i].sense = elevators[i].sense
    ]_vars

\* the tail call of elevator i before the step
TailOf(i) == elevators[i].queue.calls[Len(elevators[i].queue.calls)]

\* update_position of the step attends the tail of elevator i or finds it
\* attended
TailAttended(i) ==
    \/ ~TailOf(i).not_attended
    \/ TailOf(i).floor = last'.state[i]

\* the time at which the tail of elevator i was attended, the time of the
\* step when the step attends it
TailAttendedAt(i) ==
    IF ~TailOf(i).not_attended THEN TailOf(i).timestamp ELSE last'.timestamp

\* C23: update_position(new_floor, now) removes no call and leaves the sense
\* when the tail of the queue is an out call attended at a with
\* now - a <= wait, or is not attended; checked on every elevator of an
\* update_state tick other than the one that receives the retried call.
C23_HeldOutCallStays ==
    [][last'.op = "update_state" =>
          \A i \in ElevatorIds :
              (i # last'.nearest /\ elevators[i].queue.calls # <<>>) =>
                 ((\/ ~TailAttended(i)
                   \/ /\ TailOf(i).call_type = "out"
                      /\ last'.timestamp - TailAttendedAt(i) <= wait)
                  => /\ Removed(i) = {}
                     /\ elevators'[i].sense = elevators[i].sense)
    ]_vars

\* C23 witness: a tick at time MaxTime found the tail out call of elevator 0
\* attended exactly wait before and kept it
C23_Witness ==
    /\ last.op = "update_state"
    /\ last.timestamp = MaxTime
    /\ last.removed = {}
    /\ elevators[0].queue.calls # <<>>
    /\ LET calls == elevators[0].queue.calls
       IN /\ calls[Len(calls)].call_type = "out"
          /\ ~calls[Len(calls)].not_attended
          /\ last.timestamp - calls[Len(calls)].timestamp = wait

\* C24: when update_position(new_floor, now) finds an in call with floor
\* new_floor at the tail of the queue, the call is attended at now and is in
\* no queue when the tick ends.
C24_InCallLeavesAtItsFloor ==
    [][last'.op = "update_state" =>
          \A i \in ElevatorIds :
              (/\ elevators[i].queue.calls # <<>>
               /\ TailOf(i).call_type = "in"
               /\ TailOf(i).floor = last'.state[i])
              => /\ TailOf(i) \in Removed(i)
                 /\ TailOf(i).id \notin QueueIds(queue')
                 /\ \A j \in ElevatorIds :
                       TailOf(i).id \notin QueueIds(elevators'[j].queue)
                 /\ TailOf(i).not_attended =>
                       /\ TailAttendedAt(i) = last'.timestamp
                       /\ ~Call__call__(TailOf(i), last'.timestamp).not_attended
                       /\ Call__call__(TailOf(i), last'.timestamp).timestamp
                              = last'.timestamp
    ]_vars

\* C24 witness: a tick at time 0 with no retried call removed a call; no out
\* call can have been attended for longer than wait at time 0, so the call
\* the tick found at the tail was an in call at the floor of the cabin
C24_Witness ==
    /\ last.op = "update_state"
    /\ last.timestamp = 0
    /\ last.call = NoCall
    /\ last.removed # {}

\* C25: along every endless sequence of update_state ticks each call that
\* waits in the backlog is popped for a retry at some later tick.
C25_BacklogCallRetried ==
    \A id \in 1 .. MaxCalls :
        (id \in QueueIds(queue))
            ~> (last.op = "update_state" /\ last.call # NoCall
                /\ last.call.id = id)

\* C26: every call held in the queue of an elevator or in the backlog has
\* 1 <= floor <= n_floors, call_type in or out, and sense upward or downward.
C26_HeldCallsAreValid ==
    \A call \in HeldCalls :
        /\ 1 <= call.floor /\ call.floor <= n_floors
        /\ call.call_type \in {"in", "out"}
        /\ call.sense \in {"upward", "downward"}


\* C27: every in call held in the queue of an elevator names that elevator:
\* its elevator_id is the id of the elevator, whether take_call placed it or a
\* tick of update_state took it from the backlog.
C27_InCallInNamedCabin ==
    \A i \in ElevatorIds :
        \A call \in Range(elevators[i].queue.calls) :
            call.call_type = "in" => call.elevator_id = elevators[i].elevator_id

\* C27 witness: a tick has taken an in call for elevator 1 from the backlog
\* and it is now in the queue of elevator 1 and of no other elevator
C27_Witness ==
    /\ last.op = "update_state"
    /\ last.call # NoCall
    /\ last.call.call_type = "in"
    /\ last.call.elevator_id = 1
    /\ Holders(last.call.id) = {1}
    /\ last.call.id \notin QueueIds(queue)


\* the queues of the system: the backlog and the queue of every elevator
SystemQueues == {queue} \cup {elevators[i].queue : i \in ElevatorIds}

\* C28: two ElevatorQueues compare equal exactly when their call sequences
\* have the same length and the calls at each position are equal as Calls.
C28_QueueEqIsSequenceEq ==
    \A a \in SystemQueues, b \in SystemQueues :
        ElevatorQueue__eq__(a, b) <=>
            /\ Len(a.calls) = Len(b.calls)
            /\ \A k \in 1 .. Len(a.calls) : Call__eq__(a.calls[k], b.calls[k])


\* the earlier of two date strings
str_min(a, b) == IF str_gt(a, b) THEN b ELSE a

\* the end of the marriage window of two personas: the earliest of the
\* deaths that are set and max_date
WindowEnd(persona_1, persona_2) ==
    LET e0 == strdate(max_date)
        e1 == IF persona_1.defuncion # NoDate
              THEN str_min(e0, persona_1.defuncion) ELSE e0
    IN IF persona_2.defuncion # NoDate
       THEN str_min(e1, persona_2.defuncion) ELSE e1

\* the two personas have a feasible marriage window: the day the younger
\* one turns 18 is before the end of the window
FeasibleWindow(persona_1, persona_2) ==
    str_gt(WindowEnd(persona_1, persona_2),
           AddYears(str_max(persona_1.nacimiento, persona_2.nacimiento), 18))

\* the loop of _sample_conyuges runs and no two distinct personas have a
\* feasible marriage window
NoFeasiblePair ==
    /\ pc = "conyuges"
    /\ \A k1 \in 1 .. n_personas, k2 \in 1 .. n_personas :
          k1 # k2 => ~FeasibleWindow(personas[k1], personas[k2])

\* C29: when no pair of distinct personas has a feasible marriage window
\* (latest birth + 18 years before the earliest of the deaths and max_date),
\* no iteration of the loop of _sample_conyuges accepts a marriage and the
\* loop does not end.
C29_NoWindowNoMarriage ==
    [][NoFeasiblePair => (pc' = "conyuges" /\ conyuges' = <<>>)]_vars

====
